---- MODULE Spec2Model ----
(***************************************************************************)
(* The confinement and lifecycle simulation loop of the GalacticSpheres    *)
(* component (src/unnamed/part_000): the effect body, the delayed-start    *)
(* timer, the animate frame callback and the effect cleanup.               *)
(*                                                                         *)
(* Conventions.                                                            *)
(*  - Lengths and speeds are integers in hundredths of a unit (5.0 is 500, *)
(*    0.3 is 30); times are integer milliseconds.                          *)
(*  - Registry indices are 1-based: index k of the source is k+1 here.     *)
(*  - A sphere is named by an id; its CANNON.Body and its THREE.Mesh carry *)
(*    the same id.  0 stands for null.                                     *)
(*  - The physics solver is a black box: world.step gives every DYNAMIC    *)
(*    body of the world a new distance from the centre and a new speed.    *)
(*  - animate is one callback; pc is its position.  The steps of a tick    *)
(*    follow each other without any other callback in between.             *)
(***************************************************************************)
EXTENDS Integers, Sequences, FiniteSets, TLC

\* ---------------------------------------------------------------- bounds
\* Number of spheres created by the effect (sphereConfig.smallCount is 14 in
\* the source; the model runs a smaller population).
smallCount == 3
\* Frames are delivered while the frame timestamp stays within the horizon of
\* the environment: MaxTime for the long runs, MaxTimeShort for the short ones,
\* MaxTimeSettle for the runs with bodies that settle or leave.
MaxTime == 12800
MaxTimeShort == 6400
MaxTimeSettle == 3200
\* Math.random() * 2 - 1 is sampled at the multiples of 1 / Grid in [-1, 1).
Grid == 4
\* Fixed-point unit of the normalised direction (1.0 is Scale).
Scale == 1000
\* Largest sphereConfig.smallCount for which the removal test of a regeneration
\* cycle is evaluated on its own (the source configures 14).
MaxTargetCount == 14
\* Number of bodies in the frame loop of App.tsx (the source creates 18: ten
\* stacked at the heights 0, 2, 4, ... and eight more).
AppBodies == 2

\* ------------------------------------------------------ program constants
mainRadius == 500
exitThreshold == 102
boundaryForceMultiplier == 150
centralGravityStrength == 0
\* App.tsx: const mainSphereRadius = 2; new CANNON.Vec3(0, -0.4, 0)
mainSphereRadius == 200
referenceCentreY == 0 - 40
regenerationInterval == 10000
popupDuration == 800
maxVelocity == 1200
dwellThreshold == 2000
lowSpeedThreshold == 30
velocityChangeEpsilon == 5
nudgeSpeedThreshold == 80
nudgePeriod == 120
impulseIntervalBase == 3000
impulseIntervalJitter == 2000

KINEMATIC == "KINEMATIC"
DYNAMIC == "DYNAMIC"

\* sphereConfig.mainRadius * physicsConfig.exitThreshold
ExitDistance == (mainRadius * exitThreshold) \div 100
\* const effectiveRadius = sphereConfig.mainRadius * 0.9
effectiveRadius == (mainRadius * 9) \div 10
\* const initialDist = mainSphereRadius * 0.3
initialDist == (mainRadius * 3) \div 10

\* ------------------------------------------------- sampled input domains
\* Values of 3000 + Math.random() * 2000.
IntervalSamples == {impulseIntervalBase, impulseIntervalBase + impulseIntervalJitter - 1}
\* Outcomes of the two world.step calls for one dynamic body: at rest at the
\* centre, moving fast in the outer band, moving fast beyond the exit distance.
AtRest == [dist |-> 0, speed |-> 0]
InBandFast == [dist |-> 400, speed |-> 2000]
OutsideFast == [dist |-> 530, speed |-> 2000]

\* What the browser, the solver and the user feed the loop.  Two environments
\* are explored.  The long one runs past the regeneration interval with bodies
\* that keep moving and may leave the shell; the short one runs frames 800 ms
\* apart with bodies that may come to rest, and a pointer over the spheres.
\*   deltas     gaps between two frame timestamps
\*   maxTime    horizon
\*   outcomes   solver outcomes per body
\*   intervals  samples of the next driver-impulse interval
\*   pointer    whether the pointer ray can hit a sphere
LongEnv ==
    [ deltas |-> {800, 4800}, maxTime |-> MaxTime,
      outcomes |-> {InBandFast, OutsideFast},
      intervals |-> IntervalSamples,
      pointer |-> FALSE ]

ShortEnv ==
    [ deltas |-> {800, 2400}, maxTime |-> MaxTimeShort,
      outcomes |-> {AtRest, InBandFast},
      intervals |-> IntervalSamples,
      pointer |-> TRUE ]

\* Outcomes of `isCueBall || Math.random() > 0.3` for the non-driver spheres of
\* the initial population: every one gets a point light, or none does.
LightChoices == {TRUE, FALSE}

\* Frames 800 ms apart with bodies that come to rest or leave the shell.
SettleEnv ==
    [ deltas |-> {800}, maxTime |-> MaxTimeSettle,
      outcomes |-> {AtRest, OutsideFast},
      intervals |-> {impulseIntervalBase},
      pointer |-> FALSE ]
\* Speeds a body can have after an impulse of each kind.
CueImpulseSpeeds == {2000}
SpawnImpulseSpeeds == {2000}
RevivalSpeeds == {2000}
NudgeSpeeds == {20}
PointerSpeeds == {2000}

VARIABLES
    pc,                 \* position inside animate; "idle" between callbacks
    isActive,           \* the React state set by setIsActive
    startTimerPending,  \* the 500 ms setTimeout has not fired yet
    frameScheduled,     \* a requestAnimationFrame(animate) is outstanding
    refsInstalled,      \* smallSphere*Ref.current are the effect's arrays
    time,               \* the time argument of the running / last tick
    lastTime,
    deltaTime,
    smallSphereMeshes,  \* sequence of mesh ids
    smallSphereBodies,  \* sequence of body ids
    cueBallIndexRef,
    body,               \* id -> [dist, speed, type] of every live CANNON.Body
    userData,           \* id -> [isCueBall, hasLight, lightIndex] of every mesh
    sceneChildren,      \* scene.children: the nodes attached to the scene, in order
    world,              \* ids of the bodies in the CANNON.World
    pendingNewSphere,   \* [mesh, body, startTime]
    lastImpulseTime,
    impulseInterval,
    lastSphereRegenerationTime,
    lastVelocities,     \* per index: speed of the last sampled velocity
    stationaryTimes,    \* per index
    toRemove,           \* indices marked by the boundary pass
    nextId,             \* id of the next sphere to create
    tick,               \* what the running / last tick has done so far
    ownTracker          \* id -> [last, timer]: the speed the liveness pass last
                        \* sampled of this body and the time this body has been
                        \* near-stationary since, whatever index it had

\* A call of calculateNewImpulseDirection.
VARIABLES
    dirPc,              \* "sampling" in the do-while, "accepted", "returned"
    dirSample,          \* << x, y, z >> of the last iteration, in 1 / Grid
    dirResult           \* the returned vector, in 1 / Scale

loopVars == << pc, isActive, startTimerPending, frameScheduled, refsInstalled,
               time, lastTime, deltaTime, smallSphereMeshes, smallSphereBodies,
               cueBallIndexRef, body, userData, sceneChildren, world,
               pendingNewSphere, lastImpulseTime, impulseInterval,
               lastSphereRegenerationTime, lastVelocities, stationaryTimes,
               toRemove, nextId, tick, ownTracker >>

\* The removal decision of one regeneration cycle, for a configuration.
VARIABLES
    thrPc,              \* "test" before the condition, "call", "done"
    cfgSmallCount,      \* sphereConfig.smallCount of the configuration
    regLength,          \* smallSphereMeshes.length when the cycle runs
    thrRemoves          \* whether the cycle removes a body

dirVars == << dirPc, dirSample, dirResult >>

thrVars == << thrPc, cfgSmallCount, regLength, thrRemoves >>

\* One iteration of the forEach of the boundary pass, for one body.
VARIABLES
    bndPc,              \* "enter" before the iteration, "body" inside it, "done"
    bndIn,              \* [x, speed, index, cueBallIndex]: the body and its index
    bndOut              \* [x, speed, marked, forces]: what the iteration left

bndVars == << bndPc, bndIn, bndOut >>

\* The frame loop of App.tsx, with its bodies on the vertical axis.
VARIABLES
    appTicked,          \* animate of App.tsx has run at least once
    appBody,            \* per body [y, v]: position and velocity, in 1/100
    appMeasured,        \* per body [y, v, distance]: what the last forEach met
    appMesh,            \* per mesh the y it was given by the last forEach
    appRestitution      \* cannonMaterial.restitution, in 1/100

appVars == << appTicked, appBody, appMeasured, appMesh, appRestitution >>

unitVars == << dirVars, thrVars, bndVars, appVars >>

vars == << pc, isActive, startTimerPending, frameScheduled, refsInstalled,
           time, lastTime, deltaTime, smallSphereMeshes, smallSphereBodies,
           cueBallIndexRef, body, userData, sceneChildren, world,
           pendingNewSphere, lastImpulseTime, impulseInterval,
           lastSphereRegenerationTime, lastVelocities, stationaryTimes,
           toRemove, nextId, tick, ownTracker, dirPc, dirSample, dirResult,
           thrPc, cfgSmallCount, regLength, thrRemoves, bndPc, bndIn, bndOut,
           appTicked, appBody, appMeasured, appMesh, appRestitution >>

\* ---------------------------------------------------------------- helpers
Max(a, b) == IF a > b THEN a ELSE b

Abs(a) == IF a < 0 THEN 0 - a ELSE a

\* Array.prototype.splice(index, 1)
Splice(s, index) == [k \in 1..(Len(s) - 1) |-> IF k < index THEN s[k] ELSE s[k + 1]]

Range(s) == {s[k] : k \in DOMAIN s}

Without(f, id) == [k \in (DOMAIN f) \ {id} |-> f[k]]

NoPending == [mesh |-> 0, body |-> 0, startTime |-> 0]

\* The log of a tick.  startLen and beyond describe the registry right after
\* the physics sub-steps (its length, and its non-driver bodies beyond the exit
\* distance); lastCycle is the time of the latest earlier tick that ran a
\* regeneration cycle, -1 if there was none.
EmptyTick ==
    [ steps |-> 0, cycle |-> FALSE, regenRemoved |-> <<>>, created |-> <<>>,
      activated |-> <<>>, cueImpulses |-> <<>>, revived |-> <<>>,
      ejected |-> <<>>, clamped |-> <<>>,
      startLen |-> 0, beyond |-> {}, lastCycle |-> 0 - 1, synced |-> <<>> ]

\* Mutant: the driver impulse comes first, before the regenerator.
TickOrderImpulseFirst ==
    << "impulse", "regen", "spawn", "nudge", "liveness", "pointer", "boundary",
       "compact", "render" >>

\* The statements of animate after the two world.step calls, in the order of
\* the source: regeneration cycle, pending spawn update, applyCueBallImpulse,
\* the time % 120 nudge, the liveness forEach, the pointer raycast, the
\* boundary forEach, the removal loop, the render sync.
TickOrder ==
    << "regen", "spawn", "impulse", "nudge", "liveness", "pointer", "boundary",
       "compact", "render" >>

\* Where animate is after the stage: the next stage, or "idle" when it returns.
StageAfter(stage) ==
    LET i == CHOOSE j \in 1..Len(TickOrder) : TickOrder[j] = stage
    IN IF i = Len(TickOrder) THEN "idle" ELSE TickOrder[i + 1]

\* The closure of the effect reads the isActive of the render that created it.
isActiveInClosure == TRUE


\* ------------------------------------------------------------------ scene
\* The nodes of the scene.  A sphere's mesh and its point light carry the id
\* of the sphere.
MeshNode(id) == [kind |-> "mesh", of |-> id]

LightNode(id) == [kind |-> "pointLight", of |-> id]

\* scene.add of the effect before the population: ambient, directional and
\* inner light, the main sphere, the particles.
FixedNodes ==
    << [kind |-> "ambientLight", of |-> 0], [kind |-> "directionalLight", of |-> 0],
       [kind |-> "innerLight", of |-> 0], [kind |-> "mainSphereMesh", of |-> 0],
       [kind |-> "particlesMesh", of |-> 0] >>

\* createInnerGlow(): two glow spheres, added after the population.
GlowNodes == << [kind |-> "glowSphere", of |-> 1], [kind |-> "glowSphere", of |-> 2] >>

\* The children added by the population loop for the spheres 1..k, where lit
\* is the set of spheres that get a point light.
RECURSIVE PopulationNodes(_, _)
PopulationNodes(k, lit) ==
    IF k = 0
    THEN << >>
    ELSE PopulationNodes(k - 1, lit)
           \o << MeshNode(k) >>
           \o (IF k \in lit THEN << LightNode(k) >> ELSE << >>)

\* const lightIndex = scene.children.indexOf(pointLight), right after scene.add
InitialLightIndex(k, lit) == Len(FixedNodes) + Len(PopulationNodes(k, lit))

\* Object3D.remove(object): the object leaves children if it is a child.
SceneRemove(children, node) == SelectSeq(children, LAMBDA n : n # node)

\* if (userData.hasLight && userData.lightIndex >= 0)
\*   lightToRemove = scene.children[userData.lightIndex]; if (lightToRemove) ...
\* The node removed as the light of the mesh, if any.
LightToRemove(children, mesh, data) ==
    IF data.hasLight /\ data.lightIndex >= 1 /\ data.lightIndex <= Len(children)
    THEN << children[data.lightIndex] >>
    ELSE << >>

\* scene.remove(lightToRemove); scene.remove(meshToRemove)
DetachSphere(children, mesh, data) ==
    LET found == LightToRemove(children, mesh, data)
        c1 == IF found # << >> THEN SceneRemove(children, found[1]) ELSE children
    IN SceneRemove(c1, MeshNode(mesh))

\* ------------------------------------------------------------------ Init
\* The state when the effect body has run: the initial population is built,
\* the delayed-start timer is armed, no frame has run.
Init ==
    /\ pc = "idle"
    /\ isActive = TRUE
    /\ startTimerPending = TRUE
    /\ frameScheduled = FALSE
    /\ refsInstalled = FALSE
    /\ time = 0
    /\ lastTime = 0
    /\ deltaTime = 0
    /\ smallSphereMeshes = [k \in 1..smallCount |-> k]
    /\ smallSphereBodies = [k \in 1..smallCount |-> k]
    /\ cueBallIndexRef \in 1..smallCount
    /\ body = [k \in 1..smallCount |-> [dist |-> 0, speed |-> 100, type |-> DYNAMIC]]
    /\ \E light \in LightChoices :
          LET lit == {k \in 1..smallCount : k = cueBallIndexRef \/ light}
          IN /\ userData = [k \in 1..smallCount |->
                              [isCueBall |-> (k = cueBallIndexRef),
                               hasLight |-> (k \in lit),
                               lightIndex |-> IF k \in lit
                                              THEN InitialLightIndex(k, lit)
                                              ELSE 0]]
             /\ sceneChildren =
                   FixedNodes \o PopulationNodes(smallCount, lit) \o GlowNodes
    /\ world = 1..smallCount
    /\ pendingNewSphere = NoPending
    /\ lastImpulseTime = 0
    /\ impulseInterval = impulseIntervalBase
    /\ lastSphereRegenerationTime = 0
    /\ lastVelocities = [k \in 1..smallCount |-> 0]
    /\ stationaryTimes = [k \in 1..smallCount |-> 0]
    /\ toRemove = <<>>
    /\ nextId = smallCount + 1
    /\ tick = EmptyTick
    /\ ownTracker = [k \in 1..smallCount |-> [last |-> 0, timer |-> 0]]
    /\ dirPc = "sampling"
    /\ dirSample = << 0, 0, 0 >>
    /\ dirResult = << 0, 0, 0 >>
    /\ thrPc = "test"
    /\ cfgSmallCount = smallCount
    /\ regLength = smallCount
    /\ thrRemoves = FALSE
    /\ bndPc = "enter"
    /\ bndIn = [x |-> 0, speed |-> 0, index |-> 1, cueBallIndex |-> 1]
    /\ bndOut = [x |-> 0, speed |-> 0, marked |-> FALSE, forces |-> << >>]
    /\ appTicked = FALSE
    /\ appBody = [k \in 1..AppBodies |-> [y |-> (k - 1) * 200, v |-> 0]]
    /\ appMeasured = [k \in 1..AppBodies |-> [y |-> 0, v |-> 0, distance |-> 0]]
    /\ appMesh = [k \in 1..AppBodies |-> (k - 1) * 200]
    /\ appRestitution = 0

\* ------------------------------------------------- animate: top and step
\* Bodies the solver integrates: DYNAMIC bodies that are in the world.
Movable == {id \in world : body[id].type = DYNAMIC}

\* The part of animate(t) from the isActive test to the two world.step calls.
\* worldRef.current and mainSphereMeshRef.current are set by the effect and
\* never cleared, so the second early return is never taken.
AnimateTop(t, env) ==
    IF ~isActiveInClosure
    THEN UNCHANGED << pc, time, lastTime, deltaTime, body, tick >>
    ELSE /\ deltaTime' = t - lastTime
         /\ lastTime' = t
         /\ time' = t
         /\ \E f \in [Movable -> env.outcomes] :
                body' = [id \in DOMAIN body |->
                            IF id \in Movable
                            THEN [body[id] EXCEPT !.dist = f[id].dist,
                                                  !.speed = f[id].speed]
                            ELSE body[id]]
         /\ tick' = [EmptyTick EXCEPT
                       !.steps = 2,
                       !.startLen = Len(smallSphereBodies),
                       !.beyond = {id \in Range(smallSphereBodies) :
                                     /\ id # smallSphereBodies[cueBallIndexRef]
                                     /\ body'[id].dist > ExitDistance},
                       !.lastCycle = IF tick.cycle THEN time ELSE tick.lastCycle]
         /\ pc' = TickOrder[1]

\* setTimeout(() => { ...Ref.current = ...; setIsLoading(false); animate(0) }, 500)
DelayedStart(env) ==
    /\ pc = "idle"
    /\ startTimerPending
    /\ startTimerPending' = FALSE
    /\ refsInstalled' = TRUE
    /\ AnimateTop(0, env)
    /\ UNCHANGED << isActive, frameScheduled, smallSphereMeshes, smallSphereBodies,
                    cueBallIndexRef, userData, world, pendingNewSphere,
                    lastImpulseTime, impulseInterval, lastSphereRegenerationTime,
                    lastVelocities, stationaryTimes, toRemove, nextId >>
    /\ UNCHANGED unitVars
    /\ UNCHANGED sceneChildren
    /\ UNCHANGED ownTracker

\* The browser runs the animate callback registered by requestAnimationFrame.
Frame(env) ==
    /\ pc = "idle"
    /\ frameScheduled
    /\ frameScheduled' = FALSE
    /\ \E dt \in env.deltas :
          /\ time + dt <= env.maxTime
          /\ AnimateTop(time + dt, env)
    /\ UNCHANGED << isActive, startTimerPending, refsInstalled, smallSphereMeshes,
                    smallSphereBodies, cueBallIndexRef, userData, world,
                    pendingNewSphere, lastImpulseTime, impulseInterval,
                    lastSphereRegenerationTime, lastVelocities, stationaryTimes,
                    toRemove, nextId >>
    /\ UNCHANGED unitVars
    /\ UNCHANGED sceneChildren
    /\ UNCHANGED ownTracker

\* ------------------------------------------------ Population Regenerator
\* Mutant: the population is compared with the whole target count.
RemovalThresholdWholeCount(n) == n > Max(2, smallCount)

\* smallSphereMeshes.length > Math.max(2, sphereConfig.smallCount / 2)
RemovalThresholdExceeded(n) == 2 * n > Max(4, smallCount)

\* The same test for a configured count.
RemovalTest(n, count) == 2 * n > Max(4, count)

\* if (sphereMeshes.length <= 1 || sphereBodies.length <= 1) return
RemovalRefused(n) == n <= 1

\* time - lastSphereRegenerationTimeRef.current > sphereConfig.regenerationInterval
RegenerationDue(t, last) == t - last > regenerationInterval

\* Mutant: the do-while does not reject the driver's index.
RandomIndexChoicesAny(n, cueBallIndex) == 1..n

\* do { randomIndex = floor(random * length) } while (randomIndex === cueBallIndex)
RandomIndexChoices(n, cueBallIndex) == {k \in 1..n : k # cueBallIndex}

\* Mutant: the driver index is not adjusted on removal.
CueIndexNotAdjusted(removed, cueBallIndex) == cueBallIndex

\* if (removed < cueBallIndex) cueBallIndexRef.current--
CueIndexAfterRemoval(removed, cueBallIndex) ==
    IF removed < cueBallIndex THEN cueBallIndex - 1 ELSE cueBallIndex

\* Mutant: createNewSphere is called without looking at the slot.
SpawnSlotIgnored(pending) == TRUE

\* if (!pendingNewSphereRef.current.mesh) createNewSphere(time)
SpawnSlotFree(pending) == pending.mesh = 0

\* The body and the pending record made by createNewSphere.
NewSphereBody == [dist |-> initialDist, speed |-> 0, type |-> KINEMATIC]

NewPending(id, t) == [mesh |-> id, body |-> id, startTime |-> t]

Regeneration ==
    /\ pc = "regen"
    /\ LET due == RegenerationDue(time, lastSphereRegenerationTime)
           n == Len(smallSphereMeshes)
           doRemove == /\ due
                       /\ RemovalThresholdExceeded(n)
                       /\ ~(Len(smallSphereMeshes) <= 1 \/ Len(smallSphereBodies) <= 1)
           doCreate == due /\ SpawnSlotFree(pendingNewSphere)
       IN \E randomIndex \in (IF doRemove
                               THEN RandomIndexChoices(n, cueBallIndexRef)
                               ELSE {0}) :
            LET meshToRemove == IF doRemove THEN smallSphereMeshes[randomIndex] ELSE 0
                bodyToRemove == IF doRemove THEN smallSphereBodies[randomIndex] ELSE 0
                body1 == IF doRemove THEN Without(body, bodyToRemove) ELSE body
                userData1 == IF doRemove THEN Without(userData, meshToRemove) ELSE userData
                world1 == IF doRemove THEN world \ {bodyToRemove} ELSE world
                scene1 == IF doRemove
                          THEN DetachSphere(sceneChildren, meshToRemove,
                                            userData[meshToRemove])
                          ELSE sceneChildren
            IN /\ smallSphereMeshes' = IF doRemove
                                       THEN Splice(smallSphereMeshes, randomIndex)
                                       ELSE smallSphereMeshes
               /\ smallSphereBodies' = IF doRemove
                                       THEN Splice(smallSphereBodies, randomIndex)
                                       ELSE smallSphereBodies
               /\ cueBallIndexRef' = IF doRemove
                                     THEN CueIndexAfterRemoval(randomIndex, cueBallIndexRef)
                                     ELSE cueBallIndexRef
               /\ lastSphereRegenerationTime' = IF doRemove
                                                THEN time
                                                ELSE lastSphereRegenerationTime
               /\ body' = IF doCreate THEN body1 @@ (nextId :> NewSphereBody) ELSE body1
               /\ userData' = IF doCreate
                              THEN userData1 @@
                                     (nextId :> [isCueBall |-> FALSE,
                                                 hasLight |-> TRUE,
                                                 lightIndex |-> Len(scene1) + 2])
                              ELSE userData1
               /\ sceneChildren' = IF doCreate
                                   THEN scene1 \o << MeshNode(nextId), LightNode(nextId) >>
                                   ELSE scene1
               /\ world' = IF doCreate THEN world1 \cup {nextId} ELSE world1
               /\ pendingNewSphere' = IF doCreate
                                      THEN NewPending(nextId, time)
                                      ELSE pendingNewSphere
               /\ nextId' = IF doCreate THEN nextId + 1 ELSE nextId
               /\ ownTracker' =
                     LET own1 == IF doRemove
                                 THEN Without(ownTracker, bodyToRemove)
                                 ELSE ownTracker
                     IN IF doCreate
                        THEN own1 @@ (nextId :> [last |-> 0, timer |-> 0])
                        ELSE own1
               /\ tick' = [tick EXCEPT
                             !.cycle = due,
                             !.regenRemoved = IF doRemove THEN <<bodyToRemove>> ELSE <<>>,
                             !.created = IF doCreate THEN <<nextId>> ELSE <<>>]
    /\ pc' = StageAfter("regen")
    /\ UNCHANGED << isActive, startTimerPending, frameScheduled, refsInstalled,
                    time, lastTime, deltaTime, lastImpulseTime, impulseInterval,
                    lastVelocities, stationaryTimes, toRemove >>
    /\ UNCHANGED unitVars

\* Mutant: the animation branch is taken whatever time has elapsed.
SpawnAnimationNeverOver(t, startTime) == FALSE

\* Mutant: the animation branch is taken for elapsed < duration only.
SpawnAnimationOverAtDuration(t, startTime) == t - startTime >= popupDuration

\* elapsed <= duration keeps animating; otherwise the spawn is activated.
SpawnAnimationOver(t, startTime) == t - startTime > popupDuration

\* Mutant: the activated body keeps its type.
ActivatedTypeKept == KINEMATIC

\* body.type = CANNON.Body.DYNAMIC
ActivatedType == DYNAMIC

\* if (pendingNewSphereRef.current.mesh) updateNewSphereAnimation(time)
SpawnUpdate ==
    /\ pc = "spawn"
    /\ IF pendingNewSphere.mesh # 0 /\ pendingNewSphere.body # 0
          /\ SpawnAnimationOver(time, pendingNewSphere.startTime)
       THEN \E s \in SpawnImpulseSpeeds :
              /\ body' = [body EXCEPT ![pendingNewSphere.body] =
                            [@ EXCEPT !.type = ActivatedType, !.speed = s]]
              /\ smallSphereMeshes' = Append(smallSphereMeshes, pendingNewSphere.mesh)
              /\ smallSphereBodies' = Append(smallSphereBodies, pendingNewSphere.body)
              /\ pendingNewSphere' = NoPending
              /\ tick' = [tick EXCEPT !.activated = <<pendingNewSphere.body>>]
       ELSE UNCHANGED << body, smallSphereMeshes, smallSphereBodies,
                         pendingNewSphere, tick >>
    /\ pc' = StageAfter("spawn")
    /\ UNCHANGED << isActive, startTimerPending, frameScheduled, refsInstalled,
                    time, lastTime, deltaTime, cueBallIndexRef, userData, world,
                    lastImpulseTime, impulseInterval, lastSphereRegenerationTime,
                    lastVelocities, stationaryTimes, toRemove, nextId >>
    /\ UNCHANGED unitVars
    /\ UNCHANGED sceneChildren
    /\ UNCHANGED ownTracker

\* ------------------------------------------------ Driver Impulse Scheduler
\* Mutant: the elapsed time is taken from 0 instead of from the last impulse.
ImpulseDueFromStart(t, last, interval) == t > interval

\* time - lastImpulseTimeRef.current > impulseIntervalRef.current
ImpulseDue(t, last, interval) == t - last > interval

\* applyCueBallImpulse(time)
CueBallImpulse(env) ==
    /\ pc = "impulse"
    /\ LET due == ImpulseDue(time, lastImpulseTime, impulseInterval)
           cueBallIndex == cueBallIndexRef
       IN IF due /\ cueBallIndex >= 1 /\ cueBallIndex <= Len(smallSphereBodies)
          THEN \E s \in CueImpulseSpeeds, next \in env.intervals :
                 /\ body' = [body EXCEPT ![smallSphereBodies[cueBallIndex]].speed = s]
                 /\ lastImpulseTime' = time
                 /\ impulseInterval' = next
                 /\ tick' = [tick EXCEPT
                               !.cueImpulses = <<smallSphereBodies[cueBallIndex]>>]
          ELSE UNCHANGED << body, lastImpulseTime, impulseInterval, tick >>
    /\ pc' = StageAfter("impulse")
    /\ UNCHANGED << isActive, startTimerPending, frameScheduled, refsInstalled,
                    time, lastTime, deltaTime, smallSphereMeshes, smallSphereBodies,
                    cueBallIndexRef, userData, world, pendingNewSphere,
                    lastSphereRegenerationTime, lastVelocities, stationaryTimes,
                    toRemove, nextId >>
    /\ UNCHANGED unitVars
    /\ UNCHANGED sceneChildren
    /\ UNCHANGED ownTracker

\* if (time % 120 === 0) every slow non-driver body may get a small impulse
RandomNudge ==
    /\ pc = "nudge"
    /\ IF time % nudgePeriod = 0
       THEN LET eligible == {k \in 1..Len(smallSphereBodies) :
                               /\ k # cueBallIndexRef
                               /\ body[smallSphereBodies[k]].speed < nudgeSpeedThreshold}
            IN \E chosen \in SUBSET eligible :
                 \E f \in [chosen -> NudgeSpeeds] :
                   body' = [id \in DOMAIN body |->
                              IF \E k \in chosen : smallSphereBodies[k] = id
                              THEN [body[id] EXCEPT !.speed =
                                      f[CHOOSE k \in chosen : smallSphereBodies[k] = id]]
                              ELSE body[id]]
       ELSE UNCHANGED body
    /\ pc' = StageAfter("nudge")
    /\ UNCHANGED << isActive, startTimerPending, frameScheduled, refsInstalled,
                    time, lastTime, deltaTime, smallSphereMeshes, smallSphereBodies,
                    cueBallIndexRef, userData, world, pendingNewSphere,
                    lastImpulseTime, impulseInterval, lastSphereRegenerationTime,
                    lastVelocities, stationaryTimes, toRemove, nextId, tick >>
    /\ UNCHANGED unitVars
    /\ UNCHANGED sceneChildren
    /\ UNCHANGED ownTracker

\* ----------------------------------------------------- Liveness Enforcement
\* currentSpeed < 0.3 && velocityChange < 0.05
NearStationary(currentSpeed, lastSpeed) ==
    /\ currentSpeed < lowSpeedThreshold
    /\ Abs(currentSpeed - lastSpeed) < velocityChangeEpsilon

\* Mutant: any accumulated stationary time triggers the revival.
DwellExceededAtOnce(stationary) == stationary > 0

\* stationaryTimes[index] > 2000
DwellExceeded(stationary) == stationary > dwellThreshold

\* The indices the forEach of the liveness pass works on.  lastVelocities and
\* stationaryTimes have sphereCount entries; lastVelocities[index].copy throws
\* at the first non-driver index beyond them and the pass stops there.
TrackerDefined(index) == index <= Len(lastVelocities)

LivenessThrowsAt ==
    {k \in 1..Len(smallSphereBodies) : k # cueBallIndexRef /\ ~TrackerDefined(k)}

\* Mutant: the forEach does not skip the driver's index.
LivenessIndicesAll ==
    {k \in 1..Len(smallSphereBodies) : \A j \in LivenessThrowsAt : k < j}

LivenessIndices ==
    {k \in 1..Len(smallSphereBodies) :
        /\ k # cueBallIndexRef
        /\ \A j \in LivenessThrowsAt : k < j}

LivenessEnforcement ==
    /\ pc = "liveness"
    /\ LET speedOf(k) == body[smallSphereBodies[k]].speed
           near(k) == NearStationary(speedOf(k), lastVelocities[k])
           accumulated(k) == stationaryTimes[k] + deltaTime
           revive(k) == near(k) /\ DwellExceeded(accumulated(k))
           revivedIdx == {k \in LivenessIndices : revive(k)}
       IN \E f \in [revivedIdx -> RevivalSpeeds] :
            LET newSpeed(k) == IF k \in revivedIdx THEN f[k] ELSE speedOf(k)
            IN /\ body' = [id \in DOMAIN body |->
                             IF \E k \in revivedIdx : smallSphereBodies[k] = id
                             THEN [body[id] EXCEPT !.speed =
                                     f[CHOOSE k \in revivedIdx : smallSphereBodies[k] = id]]
                             ELSE body[id]]
               /\ stationaryTimes' = [k \in DOMAIN stationaryTimes |->
                                        IF k \in LivenessIndices
                                        THEN IF near(k) /\ ~revive(k)
                                             THEN accumulated(k)
                                             ELSE 0
                                        ELSE stationaryTimes[k]]
               /\ lastVelocities' = [k \in DOMAIN lastVelocities |->
                                       IF k \in LivenessIndices
                                       THEN newSpeed(k)
                                       ELSE lastVelocities[k]]
               /\ tick' = [tick EXCEPT !.revived =
                             SelectSeq(smallSphereBodies,
                                LAMBDA id : \E k \in revivedIdx :
                                               smallSphereBodies[k] = id)]
               /\ ownTracker' =
                     [id \in DOMAIN ownTracker |->
                        IF \E k \in LivenessIndices : smallSphereBodies[k] = id
                        THEN LET k == CHOOSE j \in LivenessIndices :
                                         smallSphereBodies[j] = id
                             IN [last |-> newSpeed(k),
                                 timer |->
                                   IF k \in revivedIdx
                                   THEN 0
                                   ELSE IF NearStationary(speedOf(k), ownTracker[id].last)
                                        THEN ownTracker[id].timer + deltaTime
                                        ELSE 0]
                        ELSE ownTracker[id]]
    /\ IF LivenessThrowsAt = {}
       THEN pc' = StageAfter("liveness")
       ELSE pc' = "idle"
    /\ UNCHANGED << isActive, startTimerPending, frameScheduled, refsInstalled,
                    time, lastTime, deltaTime, smallSphereMeshes, smallSphereBodies,
                    cueBallIndexRef, userData, world, pendingNewSphere,
                    lastImpulseTime, impulseInterval, lastSphereRegenerationTime,
                    toRemove, nextId >>
    /\ UNCHANGED unitVars
    /\ UNCHANGED sceneChildren

\* raycaster.intersectObjects(smallSphereMeshes): the struck body gets an impulse
PointerImpulse(env) ==
    /\ pc = "pointer"
    /\ \E hit \in (IF env.pointer THEN 0..Len(smallSphereMeshes) ELSE {0}) :
          IF hit # 0 /\ hit <= Len(smallSphereBodies)
          THEN \E s \in PointerSpeeds :
                 body' = [body EXCEPT ![smallSphereBodies[hit]].speed = s]
          ELSE UNCHANGED body
    /\ pc' = StageAfter("pointer")
    /\ UNCHANGED << isActive, startTimerPending, frameScheduled, refsInstalled,
                    time, lastTime, deltaTime, smallSphereMeshes, smallSphereBodies,
                    cueBallIndexRef, userData, world, pendingNewSphere,
                    lastImpulseTime, impulseInterval, lastSphereRegenerationTime,
                    lastVelocities, stationaryTimes, toRemove, nextId, tick >>
    /\ UNCHANGED unitVars
    /\ UNCHANGED sceneChildren
    /\ UNCHANGED ownTracker

\* ----------------------------------------------------- Boundary Confinement
\* distanceFromCenter > sphereConfig.mainRadius * physicsConfig.exitThreshold
BeyondExit(distance) == distance > ExitDistance

\* Mutant: the driver is left where it is.
DriverNotRepositioned(distance) == distance

\* body.position.scale((effectiveRadius / distanceFromCenter) * 0.7, body.position)
DriverClampDistance(distance) == (distance * effectiveRadius * 7) \div (distance * 10)

\* Mutant: the band starts at 0.8 * effectiveRadius itself.
InOuterBandInclusive(distance) == 10 * distance >= effectiveRadius * 8

\* distanceFromCenter > effectiveRadius * 0.8
InOuterBand(distance) == 10 * distance > effectiveRadius * 8

\* body.velocity.scale(0.95, body.velocity)
Damped(speed) == (speed * 95) \div 100

\* Mutant: the speed is never rescaled.
ClampSpeedNone(speed) == speed

\* if (currentVelocity > maxVelocity) body.velocity.scale(maxVelocity / currentVelocity)
ClampSpeed(speed) ==
    IF speed > maxVelocity THEN (speed * maxVelocity) \div speed ELSE speed

\* Mutant: the repositioned driver keeps its velocity.
BoundaryBodyDriverKeepsSpeed(b, isDriver) ==
    IF BeyondExit(b.dist)
    THEN IF isDriver THEN [b EXCEPT !.dist = DriverClampDistance(b.dist)] ELSE b
    ELSE [b EXCEPT !.speed =
            ClampSpeed(IF InOuterBand(b.dist) THEN Damped(b.speed) ELSE b.speed)]

\* What the boundary forEach does to the body at one index.
BoundaryBody(b, isDriver) ==
    IF BeyondExit(b.dist)
    THEN IF isDriver
         THEN [b EXCEPT !.dist = DriverClampDistance(b.dist), !.speed = 0]
         ELSE b
    ELSE [b EXCEPT !.speed =
            ClampSpeed(IF InOuterBand(b.dist) THEN Damped(b.speed) ELSE b.speed)]

\* Mutant: the boundary pass marks nothing for removal.
MarkedNever(distance, index, cueBallIndex) == FALSE

\* if (index !== cueBallIndexRef.current) toRemove.push(index)
MarkedForRemoval(distance, index, cueBallIndex) ==
    BeyondExit(distance) /\ index # cueBallIndex

BoundaryPass ==
    /\ pc = "boundary"
    /\ LET n == Len(smallSphereBodies)
           distOf(k) == body[smallSphereBodies[k]].dist
           Marked(k) == MarkedForRemoval(distOf(k), k, cueBallIndexRef)
           indexOf(id) == CHOOSE k \in 1..n : smallSphereBodies[k] = id
       IN /\ toRemove' = SelectSeq([k \in 1..n |-> k], Marked)
          /\ body' = [id \in DOMAIN body |->
                        IF id \in Range(smallSphereBodies)
                        THEN BoundaryBody(body[id], indexOf(id) = cueBallIndexRef)
                        ELSE body[id]]
          /\ tick' = [tick EXCEPT
                        !.ejected = [j \in 1..Len(toRemove') |->
                                        smallSphereBodies[toRemove'[j]]],
                        !.clamped = SelectSeq(smallSphereBodies,
                                        LAMBDA id : /\ indexOf(id) = cueBallIndexRef
                                                    /\ BeyondExit(body[id].dist))]
    /\ pc' = StageAfter("boundary")
    /\ UNCHANGED << isActive, startTimerPending, frameScheduled, refsInstalled,
                    time, lastTime, deltaTime, smallSphereMeshes, smallSphereBodies,
                    cueBallIndexRef, userData, world, pendingNewSphere,
                    lastImpulseTime, impulseInterval, lastSphereRegenerationTime,
                    lastVelocities, stationaryTimes, nextId >>
    /\ UNCHANGED unitVars
    /\ UNCHANGED sceneChildren
    /\ UNCHANGED ownTracker

\* Mutant: the loop stops after the first removal.
RemoveMarkedLastOnly(marks, i, st) ==
    IF i < 1
    THEN st
    ELSE [ cue |-> CueIndexAfterRemoval(marks[i], st.cue),
           meshes |-> Splice(st.meshes, marks[i]),
           bodies |-> Splice(st.bodies, marks[i]),
           children |-> DetachSphere(st.children, st.meshes[marks[i]],
                                     userData[st.meshes[marks[i]]]),
           goneMeshes |-> st.goneMeshes \cup {st.meshes[marks[i]]},
           goneBodies |-> st.goneBodies \cup {st.bodies[marks[i]]} ]

\* for (let i = toRemove.length - 1; i >= 0; i--) { ... splice(indexToRemove, 1) }
RECURSIVE RemoveMarked(_, _, _)
RemoveMarked(marks, i, st) ==
    IF i < 1
    THEN st
    ELSE LET indexToRemove == marks[i]
         IN RemoveMarked(marks, i - 1,
              [ cue |-> CueIndexAfterRemoval(indexToRemove, st.cue),
                meshes |-> Splice(st.meshes, indexToRemove),
                bodies |-> Splice(st.bodies, indexToRemove),
                children |-> DetachSphere(st.children, st.meshes[indexToRemove],
                                          userData[st.meshes[indexToRemove]]),
                goneMeshes |-> st.goneMeshes \cup {st.meshes[indexToRemove]},
                goneBodies |-> st.goneBodies \cup {st.bodies[indexToRemove]} ])

RemovalCompaction ==
    /\ pc = "compact"
    /\ LET st == RemoveMarked(toRemove, Len(toRemove),
                    [ cue |-> cueBallIndexRef, meshes |-> smallSphereMeshes,
                      bodies |-> smallSphereBodies, children |-> sceneChildren,
                      goneMeshes |-> {}, goneBodies |-> {} ])
       IN /\ cueBallIndexRef' = st.cue
          /\ smallSphereMeshes' = st.meshes
          /\ smallSphereBodies' = st.bodies
          /\ sceneChildren' = st.children
          /\ world' = world \ st.goneBodies
          /\ body' = [id \in (DOMAIN body) \ st.goneBodies |-> body[id]]
          /\ ownTracker' = [id \in (DOMAIN ownTracker) \ st.goneBodies |->
                              ownTracker[id]]
          /\ userData' = [id \in (DOMAIN userData) \ st.goneMeshes |-> userData[id]]
    /\ toRemove' = <<>>
    /\ pc' = StageAfter("compact")
    /\ UNCHANGED << isActive, startTimerPending, frameScheduled, refsInstalled,
                    time, lastTime, deltaTime, pendingNewSphere, lastImpulseTime,
                    impulseInterval, lastSphereRegenerationTime, lastVelocities,
                    stationaryTimes, nextId, tick >>
    /\ UNCHANGED unitVars

\* ----------------------------------------------------------- Render Sync
\* light = scene.children[userData.lightIndex]; if (light) light.position.copy(...)
\* The scene nodes the forEach writes a position or intensity to for one mesh.
SyncedLight(children, data) ==
    IF data.hasLight /\ data.lightIndex >= 1 /\ data.lightIndex <= Len(children)
    THEN << children[data.lightIndex] >>
    ELSE << >>

\* sphereMesh.position.set(body.position.x, body.position.y, body.position.z)
\* and the light and material updates: what the forEach writes, per index.
SyncedTransforms ==
    [k \in 1..Len(smallSphereBodies) |->
        [ mesh |-> smallSphereMeshes[k],
          dist |-> body[smallSphereBodies[k]].dist,
          light |-> SyncedLight(sceneChildren, userData[smallSphereMeshes[k]]) ]]

\* Mutant: the pass also writes into the bodies it reads, stopping them.
RenderSyncStopsBodies ==
    /\ pc = "render"
    /\ tick' = [tick EXCEPT !.synced = SyncedTransforms]
    /\ body' = [id \in DOMAIN body |->
                  IF id \in Range(smallSphereBodies)
                  THEN [body[id] EXCEPT !.speed = 0]
                  ELSE body[id]]
    /\ frameScheduled' = TRUE
    /\ pc' = StageAfter("render")
    /\ UNCHANGED << isActive, startTimerPending, refsInstalled, time, lastTime,
                    deltaTime, smallSphereMeshes, smallSphereBodies, cueBallIndexRef,
                    userData, world, pendingNewSphere, lastImpulseTime,
                    impulseInterval, lastSphereRegenerationTime, lastVelocities,
                    stationaryTimes, toRemove, nextId >>
    /\ UNCHANGED unitVars
    /\ UNCHANGED sceneChildren
    /\ UNCHANGED ownTracker

\* Copies the body positions into the meshes and their lights, sets the
\* material and light intensities, renders, and re-registers the callback.
RenderSync ==
    /\ pc = "render"
    /\ tick' = [tick EXCEPT !.synced = SyncedTransforms]
    /\ frameScheduled' = TRUE
    /\ pc' = StageAfter("render")
    /\ UNCHANGED << isActive, startTimerPending, refsInstalled, time, lastTime,
                    deltaTime, smallSphereMeshes, smallSphereBodies, cueBallIndexRef,
                    body, userData, world, pendingNewSphere, lastImpulseTime,
                    impulseInterval, lastSphereRegenerationTime, lastVelocities,
                    stationaryTimes, toRemove, nextId >>
    /\ UNCHANGED unitVars
    /\ UNCHANGED sceneChildren
    /\ UNCHANGED ownTracker

\* ---------------------------------------------------------------- teardown
\* The function returned by the effect.  It runs between callbacks, once.
Cleanup ==
    /\ pc = "idle"
    /\ isActive
    /\ isActive' = FALSE
    /\ sceneChildren' = << >>
    /\ world' = IF Len(smallSphereBodies) > 0
                THEN world \ Range(smallSphereBodies)
                ELSE world
    /\ UNCHANGED << pc, startTimerPending, frameScheduled, refsInstalled, time,
                    lastTime, deltaTime, smallSphereMeshes, smallSphereBodies,
                    cueBallIndexRef, body, userData, pendingNewSphere,
                    lastImpulseTime, impulseInterval, lastSphereRegenerationTime,
                    lastVelocities, stationaryTimes, toRemove, nextId, tick >>
    /\ UNCHANGED unitVars
    /\ UNCHANGED ownTracker

Next ==
    \/ DelayedStart(LongEnv)
    \/ Frame(LongEnv)
    \/ Regeneration
    \/ SpawnUpdate
    \/ CueBallImpulse(LongEnv)
    \/ RandomNudge
    \/ LivenessEnforcement
    \/ PointerImpulse(LongEnv)
    \/ BoundaryPass
    \/ RemovalCompaction
    \/ RenderSync
    \/ Cleanup

Spec == Init /\ [][Next]_vars

\* What the browser and the running callback do by themselves: the 500 ms
\* timer fires, a callback registered with requestAnimationFrame is run, and a
\* running callback goes on to its next statement.  The cleanup is not among
\* them: the component may stay mounted for ever.
AnimateStep ==
    \/ DelayedStart(LongEnv)
    \/ Frame(LongEnv)
    \/ Regeneration
    \/ SpawnUpdate
    \/ CueBallImpulse(LongEnv)
    \/ RandomNudge
    \/ LivenessEnforcement
    \/ PointerImpulse(LongEnv)
    \/ BoundaryPass
    \/ RemovalCompaction
    \/ RenderSync

FairSpec == Init /\ [][Next]_vars /\ WF_vars(AnimateStep)

\* The same program in the short environment.
NextShort ==
    \/ DelayedStart(ShortEnv)
    \/ Frame(ShortEnv)
    \/ Regeneration
    \/ SpawnUpdate
    \/ CueBallImpulse(ShortEnv)
    \/ RandomNudge
    \/ LivenessEnforcement
    \/ PointerImpulse(ShortEnv)
    \/ BoundaryPass
    \/ RemovalCompaction
    \/ RenderSync
    \/ Cleanup

SpecShort == Init /\ [][NextShort]_vars

\* The same program with bodies that settle or leave the shell.
NextSettle ==
    \/ DelayedStart(SettleEnv)
    \/ Frame(SettleEnv)
    \/ Regeneration
    \/ SpawnUpdate
    \/ CueBallImpulse(SettleEnv)
    \/ RandomNudge
    \/ LivenessEnforcement
    \/ PointerImpulse(SettleEnv)
    \/ BoundaryPass
    \/ RemovalCompaction
    \/ RenderSync
    \/ Cleanup

SpecSettle == Init /\ [][NextSettle]_vars

\* ------------------------------------------- calculateNewImpulseDirection
\* Values of Math.random() * 2 - 1 on the grid.
Coordinates == (0 - Grid)..(Grid - 1)

\* lengthSquared = x * x + y * y + z * z, in 1 / Grid^2
LengthSquared(v) == v[1] * v[1] + v[2] * v[2] + v[3] * v[3]

\* Mutant: no sample leaves the loop.
RejectSampleAlways(lengthSquared) == TRUE

\* Mutant: a sample of squared length 1 leaves the loop.
RejectSampleAboveOne(lengthSquared) ==
    lengthSquared > Grid * Grid \/ 10 * lengthSquared < Grid * Grid

\* while (lengthSquared >= 1 || lengthSquared < 0.1)
RejectSample(lengthSquared) ==
    lengthSquared >= Grid * Grid \/ 10 * lengthSquared < Grid * Grid

\* Math.sqrt on fixed-point numbers: the largest r with r * r <= n.
ISqrt(n) == CHOOSE r \in 0..(2 * Scale) : r * r <= n /\ n < (r + 1) * (r + 1)

\* const length = Math.sqrt(lengthSquared), in 1 / Scale
LengthOf(v) == ISqrt((LengthSquared(v) * Scale * Scale) \div (Grid * Grid))

\* new THREE.Vector3(x / length, y / length, z / length), in 1 / Scale
Normalised(v) ==
    [i \in 1..3 |-> (v[i] * Scale * Scale) \div (Grid * LengthOf(v))]

\* One iteration of the do-while: a fresh sample, kept if the test lets it out.
DrawSample ==
    /\ dirPc = "sampling"
    /\ dirSample' \in Coordinates \X Coordinates \X Coordinates
    /\ dirPc' = IF RejectSample(LengthSquared(dirSample'))
                THEN "sampling"
                ELSE "accepted"
    /\ UNCHANGED dirResult
    /\ UNCHANGED << loopVars, thrVars, bndVars, appVars >>

\* The two statements after the loop.
ReturnDirection ==
    /\ dirPc = "accepted"
    /\ dirResult' = Normalised(dirSample)
    /\ dirPc' = "returned"
    /\ UNCHANGED dirSample
    /\ UNCHANGED << loopVars, thrVars, bndVars, appVars >>

NextDirection ==
    \/ DrawSample
    \/ ReturnDirection

SpecDirection == Init /\ [][NextDirection]_vars

\* The do-while keeps iterating while the function runs, and the statements
\* after it run once it is left.  Math.random() is a fair sampler: an outcome
\* that every iteration can draw is drawn in some iteration.
\* The function reads no state of the component: one population is enough.
InitDirection ==
    /\ Init
    /\ cueBallIndexRef = 1
    /\ \A k \in 1..smallCount : userData[k].hasLight

FairSpecDirection ==
    /\ InitDirection
    /\ [][NextDirection]_vars
    /\ SF_dirPc(dirPc = "sampling" /\ dirPc' = "accepted" /\ DrawSample)
    /\ WF_dirPc(ReturnDirection)

\* ----------------------------------------- removal decision of a cycle
\* The condition of animate that guards removeRandomSphere, evaluated for a
\* configured count and a registry of 1 to that many bodies.
ThresholdTest ==
    /\ thrPc = "test"
    /\ \E count \in 2..MaxTargetCount :
          \E n \in 1..count :
            /\ cfgSmallCount' = count
            /\ regLength' = n
            /\ thrPc' = IF RemovalTest(n, count) THEN "call" ELSE "done"
    /\ thrRemoves' = FALSE
    /\ UNCHANGED << loopVars, dirVars, bndVars, appVars >>

\* removeRandomSphere: it returns at once on a registry of one body, and
\* removes a body otherwise.
RemoveCall ==
    /\ thrPc = "call"
    /\ thrRemoves' = ~RemovalRefused(regLength)
    /\ thrPc' = "done"
    /\ UNCHANGED << cfgSmallCount, regLength >>
    /\ UNCHANGED << loopVars, dirVars, bndVars, appVars >>

NextThreshold ==
    \/ ThresholdTest
    \/ RemoveCall

SpecThreshold == Init /\ [][NextThreshold]_vars

\* ------------------------------------- one iteration of the boundary forEach
\* body.position along one axis through the centre, and body speeds.
PositionSamples ==
    { 0 - 530, 0 - 511, 0 - 510, 0 - 450, 0 - 361, 0 - 360, 0 - 200, 0,
      200, 360, 361, 450, 510, 511, 530 }

SpeedSamples == { 0, 1000, 1250, 1300, 2000 }

\* centerDirection = (-x, -y, -z); if (distanceFromCenter > 0) scale(1 / distance)
CenterDirection(x) == IF x > 0 THEN 0 - 1 ELSE IF x < 0 THEN 1 ELSE 0

\* Math.pow((distance - effectiveRadius * 0.8) / (effectiveRadius * 0.2), 2)
\*   * physicsConfig.boundaryForceMultiplier, in 1/100
BoundaryFactor(distance) ==
    LET depth == (10 * distance - 8 * effectiveRadius) \div 10
        width == (2 * effectiveRadius) \div 10
    IN (depth * depth * boundaryForceMultiplier * 100) \div (width * width)

\* body.position.scale((effectiveRadius / distanceFromCenter) * 0.7, body.position)
ScaledPosition(x, distance) == (x * effectiveRadius * 7) \div (distance * 10)

\* The body.applyForce calls of one iteration, in order.  The iteration
\* returns before them for a body beyond the exit distance.
AppliedForces(x) ==
    LET distanceFromCenter == Abs(x)
        gravityCentral == [ name |-> "gravityCentral",
                            value |-> CenterDirection(x) * centralGravityStrength ]
        boundaryForce == [ name |-> "boundaryForce",
                           value |-> CenterDirection(x)
                                       * BoundaryFactor(distanceFromCenter) ]
    IN IF BeyondExit(distanceFromCenter)
       THEN << >>
       ELSE << gravityCentral >>
              \o (IF InOuterBand(distanceFromCenter)
                  THEN << boundaryForce >>
                  ELSE << >>)

BoundaryEnter ==
    /\ bndPc = "enter"
    /\ \E x \in PositionSamples, speed \in SpeedSamples,
          index \in 1..2, cueBallIndex \in 1..2 :
          bndIn' = [ x |-> x, speed |-> speed, index |-> index,
                     cueBallIndex |-> cueBallIndex ]
    /\ bndPc' = "body"
    /\ UNCHANGED bndOut
    /\ UNCHANGED << loopVars, dirVars, thrVars, appVars >>

BoundaryIteration ==
    /\ bndPc = "body"
    /\ LET distanceFromCenter == Abs(bndIn.x)
           isDriver == bndIn.index = bndIn.cueBallIndex
           after == BoundaryBody([ dist |-> distanceFromCenter,
                                   speed |-> bndIn.speed, type |-> DYNAMIC ],
                                 isDriver)
       IN bndOut' =
            [ x |-> IF BeyondExit(distanceFromCenter) /\ isDriver
                    THEN ScaledPosition(bndIn.x, distanceFromCenter)
                    ELSE bndIn.x,
              speed |-> after.speed,
              marked |-> MarkedForRemoval(distanceFromCenter, bndIn.index,
                                          bndIn.cueBallIndex),
              forces |-> AppliedForces(bndIn.x) ]
    /\ bndPc' = "done"
    /\ UNCHANGED bndIn
    /\ UNCHANGED << loopVars, dirVars, thrVars, appVars >>

NextBoundary ==
    \/ BoundaryEnter
    \/ BoundaryIteration

SpecBoundary == Init /\ [][NextBoundary]_vars

\* ------------------------------------------------ frame loop of App.tsx
\* Where world.step(1 / 60) can leave a body, on the axis through the origin
\* and the reference centre, and with which velocity.
AppPositionSamples == { 0 - 300, 0 - 240, 0 - 40, 0, 160, 161, 300, 1800 }

AppVelocitySamples == { 0 - 400, 100 }

\* body.position.distanceTo(new CANNON.Vec3(0, -0.4, 0))
DistanceFromCenter(y) == Abs(y - referenceCentreY)

\* if (distanceFromCenter > mainSphereRadius)
OutsideMainSphere(distance) == distance > mainSphereRadius

\* body.position.scale(mainSphereRadius / distanceFromCenter, body.position)
RescaledPosition(y, distance) == (y * mainSphereRadius) \div distance

\* body.velocity.scale(0.5, body.velocity)
HalvedVelocity(v) == (v * 5) \div 10

\* What one iteration of the forEach leaves of a body.
AppCorrected(b) ==
    LET distanceFromCenter == DistanceFromCenter(b.y)
    IN IF OutsideMainSphere(distanceFromCenter)
       THEN [ y |-> RescaledPosition(b.y, distanceFromCenter),
              v |-> HalvedVelocity(b.v) ]
       ELSE b

\* animate of App.tsx: world.step, the gravity update (which moves no body in
\* this frame), the forEach with the boundary correction and the mesh update.
AppAnimate ==
    /\ \E stepped \in [1..AppBodies ->
                          [y : AppPositionSamples, v : AppVelocitySamples]] :
          /\ appMeasured' = [k \in 1..AppBodies |->
                               [ y |-> stepped[k].y, v |-> stepped[k].v,
                                 distance |-> DistanceFromCenter(stepped[k].y) ]]
          /\ appBody' = [k \in 1..AppBodies |-> AppCorrected(stepped[k])]
          /\ appRestitution' =
                IF \E k \in 1..AppBodies :
                      OutsideMainSphere(DistanceFromCenter(stepped[k].y))
                THEN 150
                ELSE appRestitution
    /\ appMesh' = [k \in 1..AppBodies |-> appBody'[k].y]
    /\ appTicked' = TRUE
    /\ UNCHANGED << loopVars, dirVars, thrVars, bndVars >>

NextApp == AppAnimate

SpecApp == Init /\ [][NextApp]_vars

\* ------------------------------------------------------------ type check
TypeOK ==
    /\ pc \in {"idle", "regen", "spawn", "impulse", "nudge", "liveness",
               "pointer", "boundary", "compact", "render"}
    /\ Len(smallSphereMeshes) = Len(smallSphereBodies)
    /\ Range(smallSphereBodies) \subseteq DOMAIN body
    /\ world \subseteq DOMAIN body

\* ================================================================ claims
\* Names used by the properties below.
Registry == smallSphereBodies

DriverIndices ==
    {k \in 1..Len(smallSphereMeshes) : userData[smallSphereMeshes[k]].isCueBall}

DriverId == smallSphereBodies[cueBallIndexRef]

\* Indices of the registry whose body is no longer in the registry after the step.
RemovedIndices == {k \in 1..Len(smallSphereBodies) :
                      smallSphereBodies[k] \notin Range(smallSphereBodies')}

\* ---------------------------------------------------------------------- C1
\* C1: in every reachable state the registry holds exactly one body flagged
\* isCueBall; neither removeRandomSphere nor the boundary ejection removes it.
C1_ExactlyOneDriver == Cardinality(DriverIndices) = 1

\* A tick in which the regenerator removed a body, the boundary pass ejected
\* another and found the driver itself beyond the exit distance.
C1_Witness ==
    /\ pc = "idle"
    /\ tick.regenRemoved # <<>>
    /\ tick.ejected # <<>>
    /\ tick.clamped # <<>>
    /\ Cardinality(DriverIndices) = 1

\* ---------------------------------------------------------------------- C2
\* C2: cueBallIndexRef is always within the registry and the mesh at that index
\* is the driver; a step that removes bodies lowers the index by the number of
\* removed indices below it (by one iff the single removed index is below it).
C2_IndexInvariant ==
    /\ cueBallIndexRef >= 1
    /\ cueBallIndexRef <= Len(smallSphereBodies)
    /\ userData[smallSphereMeshes[cueBallIndexRef]].isCueBall

C2_IndexStep ==
    cueBallIndexRef' =
        cueBallIndexRef - Cardinality({k \in RemovedIndices : k < cueBallIndexRef})

C2_DriverIndexTracksDriver == []C2_IndexInvariant /\ [][C2_IndexStep]_vars

\* Both removal paths ran in one tick, each removing a body that preceded the
\* driver, and the index followed the driver to the front of the registry.
C2_Witness ==
    /\ pc = "idle"
    /\ Len(tick.regenRemoved) = 1
    /\ Len(tick.ejected) = 1
    /\ tick.regenRemoved[1] < DriverId
    /\ tick.ejected[1] < DriverId
    /\ cueBallIndexRef = 1
    /\ userData[smallSphereMeshes[1]].isCueBall

\* ---------------------------------------------------------------------- C3
\* C3: at the end of every tick every body of the registry is within
\* mainRadius * exitThreshold of the centre; the bodies the boundary pass found
\* beyond it are gone (non-driver) or back inside (driver) in that same tick.
C3_AllInsideAtTickEnd ==
    pc = "idle" =>
        /\ \A id \in Range(smallSphereBodies) :
               100 * body[id].dist <= mainRadius * exitThreshold
        /\ \A j \in 1..Len(tick.ejected) :
               tick.ejected[j] \notin Range(smallSphereBodies)
        /\ \A j \in 1..Len(tick.clamped) :
               /\ tick.clamped[j] \in Range(smallSphereBodies)
               /\ 100 * body[tick.clamped[j]].dist <= mainRadius * exitThreshold

\* The end of a tick whose boundary pass met a non-driver and the driver
\* beyond the exit distance.
C3_Witness ==
    /\ pc = "idle"
    /\ tick.ejected # <<>>
    /\ tick.clamped # <<>>
    /\ tick.clamped[1] = DriverId

\* ---------------------------------------------------------------------- C4
\* C4: once the cleanup has run (it calls setIsActive(false)), no later tick
\* steps the physics, applies an impulse or changes the registry: the animate
\* callback returns at its top and does not register itself again.
C4_Quiescent ==
    ~isActive =>
        /\ pc' = "idle"
        /\ frameScheduled' => frameScheduled
        /\ UNCHANGED << body, world, smallSphereMeshes, smallSphereBodies,
                        cueBallIndexRef, pendingNewSphere, lastImpulseTime,
                        lastVelocities, stationaryTimes >>

C4_NoTickAfterTeardown == [][C4_Quiescent]_vars

\* ---------------------------------------------------------------------- C5
\* C5: in the liveness pass a near-stationary non-driver body gets a revival
\* impulse iff its stationary timer, with this tick's deltaTime added, exceeds
\* 2000 ms; it gets exactly one, and its timer is 0 right after; otherwise its
\* timer holds the accumulated time and it gets none.  No other step of the
\* tick revives a body.
C5_LivenessStep ==
    IF pc = "liveness"
    THEN \A k \in 1..Len(smallSphereBodies) :
           k # cueBallIndexRef =>
             LET id == smallSphereBodies[k]
                 cur == body[id].speed
                 near == cur < 30 /\ Abs(cur - lastVelocities[k]) < 5
                 acc == stationaryTimes[k] + deltaTime
                 impulses == Cardinality({j \in 1..Len(tick'.revived) :
                                             tick'.revived[j] = id})
             IN IF near /\ acc > 2000
                THEN /\ impulses = 1
                     /\ body'[id].speed \in RevivalSpeeds
                     /\ stationaryTimes'[k] = 0
                ELSE /\ impulses = 0
                     /\ body'[id].speed = cur
                     /\ stationaryTimes'[k] = IF near THEN acc ELSE 0
    ELSE pc' # "regen" => tick'.revived = tick.revived

C5_RevivalAtDwell == [][C5_LivenessStep]_vars

\* A body was just revived after staying near-stationary over several frames
\* 800 ms apart.
C5_Witness ==
    /\ pc = "pointer"
    /\ deltaTime = 800
    /\ Len(tick.revived) >= 1
    /\ \E k \in 1..Len(smallSphereBodies) :
          /\ smallSphereBodies[k] = tick.revived[1]
          /\ stationaryTimes[k] = 0

\* ---------------------------------------------------------------------- C6
\* C6: a regeneration cycle that starts from N bodies, N above the removal
\* threshold, removes exactly one body and creates at most one new sphere, which
\* is not in the registry; the registry has N - 1 bodies right after it.  No
\* cycle leaves the registry larger than it found it.
C6_CycleStep ==
    pc = "regen" =>
        LET N == Len(smallSphereBodies)
            new == (DOMAIN body') \ (DOMAIN body)
        IN /\ Len(smallSphereBodies') <= N
           /\ (time - lastSphereRegenerationTime > regenerationInterval
               /\ 2 * N > Max(4, smallCount))
              => /\ Len(smallSphereBodies') = N - 1
                 /\ Cardinality(RemovedIndices) = 1
                 /\ Range(smallSphereBodies') \subseteq Range(smallSphereBodies)
                 /\ Cardinality(new) <= 1
                 /\ new \cap Range(smallSphereBodies') = {}
                 /\ new # {} => pendingNewSphere'.body \in new

C6_OneRemovalPerCycle == [][C6_CycleStep]_vars

\* Right after a cycle that removed one body of a full registry and started a
\* spawn.
C6_Witness ==
    /\ pc = "spawn"
    /\ tick.cycle
    /\ Len(tick.regenRemoved) = 1
    /\ Len(tick.created) = 1
    /\ Len(smallSphereBodies) = smallCount - 1
    /\ pendingNewSphere.body = tick.created[1]
    /\ pendingNewSphere.body \notin Range(smallSphereBodies)

\* ---------------------------------------------------------------------- C7
\* C7: in a tick with time - lastImpulseTime > impulseInterval exactly one
\* scheduled impulse goes to the driver, lastImpulseTime becomes the tick time
\* and the interval is resampled into [3000, 5000); in any other tick, and in
\* any other step, no scheduled impulse is applied and both are unchanged.
C7_ImpulseStep ==
    IF pc = "impulse"
    THEN IF time - lastImpulseTime > impulseInterval
         THEN /\ tick'.cueImpulses = << DriverId >>
              /\ userData[DriverId].isCueBall
              /\ body'[DriverId].speed \in CueImpulseSpeeds
              /\ lastImpulseTime' = time
              /\ impulseInterval' >= 3000
              /\ impulseInterval' < 5000
         ELSE /\ tick'.cueImpulses = <<>>
              /\ UNCHANGED << lastImpulseTime, impulseInterval, body >>
    ELSE /\ UNCHANGED << lastImpulseTime, impulseInterval >>
         /\ pc' # "regen" => tick'.cueImpulses = tick.cueImpulses

C7_ScheduledImpulse == [][C7_ImpulseStep]_vars

\* The scheduler has just fired for the second time at least.
C7_Witness ==
    /\ pc = "nudge"
    /\ tick.cueImpulses = << DriverId >>
    /\ lastImpulseTime = time
    /\ time >= 2 * impulseIntervalBase

\* ---------------------------------------------------------------------- C8
\* C8: the world never holds more than one KINEMATIC body outside the registry,
\* and a sphere is created only while the Pending Spawn slot is empty.
KinematicOutsideRegistry ==
    {id \in world : body[id].type = KINEMATIC /\ id \notin Range(smallSphereBodies)}

C8_SingleKinematic == Cardinality(KinematicOutsideRegistry) <= 1

C8_CreateStep ==
    (DOMAIN body') \ (DOMAIN body) # {} => pendingNewSphere.mesh = 0

C8_OneSpawnInFlight == []C8_SingleKinematic /\ [][C8_CreateStep]_vars

\* A regeneration cycle ran while a spawn was in flight and created nothing.
C8_Witness ==
    /\ pc = "spawn"
    /\ tick.cycle
    /\ tick.created = <<>>
    /\ pendingNewSphere.mesh # 0
    /\ KinematicOutsideRegistry = {pendingNewSphere.body}

\* ---------------------------------------------------------------------- C9
\* C9: a body enters the registry only as the Pending Spawn whose elapsed time
\* exceeds popupDuration, appended at the end, and the slot is cleared in that
\* step; after the spawn update of a tick no Pending Spawn is past popupDuration
\* (it was activated in the first such tick); the registry never holds a body
\* twice; the slot is empty at the end of a tick that activated a spawn.
C9_ActivationStep ==
    Range(smallSphereBodies') \ Range(smallSphereBodies) # {} =>
        /\ pendingNewSphere.body # 0
        /\ time - pendingNewSphere.startTime > popupDuration
        /\ smallSphereBodies' = Append(smallSphereBodies, pendingNewSphere.body)
        /\ smallSphereMeshes' = Append(smallSphereMeshes, pendingNewSphere.mesh)
        /\ pendingNewSphere.body \notin Range(smallSphereBodies)
        /\ pendingNewSphere'.mesh = 0
        /\ pendingNewSphere'.body = 0

C9_State ==
    /\ (pc \notin {"regen", "spawn"} /\ pendingNewSphere.mesh # 0)
          => time - pendingNewSphere.startTime <= popupDuration
    /\ Cardinality(Range(smallSphereBodies)) = Len(smallSphereBodies)
    /\ (pc = "idle" /\ tick.activated # <<>>) => pendingNewSphere.mesh = 0

C9_ActivatedOnceWhenDue == []C9_State /\ [][C9_ActivationStep]_vars

\* The end of a tick that activated a spawn: its body is the last of the
\* registry and the slot is empty.
C9_Witness ==
    /\ pc = "idle"
    /\ Len(tick.activated) = 1
    /\ smallSphereBodies[Len(smallSphereBodies)] = tick.activated[1]
    /\ pendingNewSphere = NoPending

\* --------------------------------------------------------------------- C10
\* C10: every body of the registry is DYNAMIC and the Pending Spawn's body is
\* KINEMATIC; a body's type changes only from KINEMATIC to DYNAMIC, in the step
\* that activates it.
C10_State ==
    /\ \A id \in Range(smallSphereBodies) : body[id].type = DYNAMIC
    /\ pendingNewSphere.body # 0 => body[pendingNewSphere.body].type = KINEMATIC

C10_TypeStep ==
    \A id \in (DOMAIN body) \cap (DOMAIN body') :
        body'[id].type # body[id].type =>
            /\ body[id].type = KINEMATIC
            /\ body'[id].type = DYNAMIC
            /\ id = pendingNewSphere.body
            /\ id \in Range(smallSphereBodies')
            /\ id \notin Range(smallSphereBodies)

C10_KinematicToDynamicOnce == []C10_State /\ [][C10_TypeStep]_vars

\* The end of a tick that activated a spawn: the body that was KINEMATIC in the
\* slot is DYNAMIC in the registry.
C10_Witness ==
    /\ pc = "idle"
    /\ Len(tick.activated) = 1
    /\ tick.activated[1] \in Range(smallSphereBodies)
    /\ body[tick.activated[1]].type = DYNAMIC

\* --------------------------------------------------------------------- C11
\* C11: the cleanup leaves no body in the physics world: the initial
\* population, the activated spawns and the KINEMATIC body of a Pending
\* Spawn in flight have all been removed from it when the cleanup returns.
C11_CleanupStep == (isActive /\ ~isActive') => world' = {}

C11_WorldEmptiedByTeardown == [][C11_CleanupStep]_vars

\* --------------------------------------------------------------------- C12
\* C12: when the cleanup runs before the delayed-start timer has fired, the
\* timer is no longer scheduled afterwards and no tick ever starts: animate
\* does not run and no frame callback is registered.
C12_NoTimerLeft == ~isActive => ~startTimerPending

C12_NoStartStep ==
    (~isActive /\ startTimerPending) =>
        /\ pc' = "idle"
        /\ ~frameScheduled'
        /\ UNCHANGED << body, tick >>

C12_NoStartAfterEarlyTeardown == []C12_NoTimerLeft /\ [][C12_NoStartStep]_vars

C13_OtherRemoved ==
    Cardinality({j \in 1..Len(tick.regenRemoved) :
                    tick.regenRemoved[j] \notin tick.beyond})

C14_SampleAccepted ==
    dirPc \in {"accepted", "returned"} =>
        /\ LengthSquared(dirSample) < Grid * Grid
        /\ 10 * LengthSquared(dirSample) >= Grid * Grid

C14_UnitLength ==
    dirPc = "returned" =>
        /\ 100 * Abs(LengthSquared(dirResult) - Scale * Scale) <= Scale * Scale
        /\ \A i \in 1..3 :
              /\ dirSample[i] > 0 => dirResult[i] > 0
              /\ dirSample[i] < 0 => dirResult[i] < 0
              /\ dirSample[i] = 0 => dirResult[i] = 0
              /\ Abs(dirResult[i] * Grid * LengthOf(dirSample)
                       - dirSample[i] * Scale * Scale) <= Grid * LengthOf(dirSample)

C14_LoopStep ==
    (dirPc = "sampling" /\ dirPc' = "sampling") =>
        (LengthSquared(dirSample') >= Grid * Grid
           \/ 10 * LengthSquared(dirSample') < Grid * Grid)

C14_DirectionFromAcceptedSample ==
    [](C14_SampleAccepted /\ C14_UnitLength) /\ [][C14_LoopStep]_vars

\* A direction was returned from an accepted sample with a negative and a
\* positive coordinate.
C14_Witness ==
    /\ dirPc = "returned"
    /\ dirSample[1] < 0
    /\ dirSample[2] > 0
    /\ dirResult[1] < 0
    /\ dirResult[2] > 0

\* --------------------------------------------------------------------- C15
\* C15: when a step removes bodies from the registry, the only nodes that
\* leave the scene are the meshes of those bodies and the point lights created
\* for them, and none of their lights stays in the scene.  (The cleanup, which
\* clears the whole scene, is not a removal of a body.)
C15_DetachStep ==
    (isActive' = isActive) =>
        LET removed == Range(smallSphereMeshes) \ Range(smallSphereMeshes')
            gone == Range(sceneChildren) \ Range(sceneChildren')
        IN /\ gone \subseteq ({MeshNode(id) : id \in removed}
                                \cup {LightNode(id) : id \in removed})
           /\ \A id \in removed : LightNode(id) \notin Range(sceneChildren')

C15_OwnLightDetached == [][C15_DetachStep]_vars

\* --------------------------------------------------------------------- C16
\* C16: the stationary timer and the last sampled speed that the liveness pass
\* keeps at a non-driver body's registry index are that body's own: the time
\* this body has been near-stationary and the speed last sampled of it.  So a
\* newly activated body has timer 0, and a body whose index shifts keeps its
\* timer.
C16_OwnTrackerAtIndex ==
    \A k \in 1..Len(smallSphereBodies) :
        (k # cueBallIndexRef /\ TrackerDefined(k)) =>
            /\ stationaryTimes[k] = ownTracker[smallSphereBodies[k]].timer
            /\ lastVelocities[k] = ownTracker[smallSphereBodies[k]].last

\* --------------------------------------------------------------------- C17
\* C17: after the liveness pass of a tick no non-driver body of the registry
\* has been near-stationary for more than 2000 ms of accumulated tick time
\* without a revival impulse, whatever was removed or activated meanwhile.
C17_NoBodyOverDwell ==
    \A k \in 1..Len(smallSphereBodies) :
        k # cueBallIndexRef =>
            ownTracker[smallSphereBodies[k]].timer <= dwellThreshold

\* --------------------------------------------------------------------- C18
\* C18: a regeneration cycle (removal check plus spawn initiation) runs, and a
\* spawn is initiated, only regenerationInterval or more after the previous
\* cycle, whether or not that cycle removed a body.
C18_CycleStep ==
    (pc = "regen" /\ tick.lastCycle >= 0
       /\ (tick'.cycle \/ tick'.created # << >>))
        => time >= tick.lastCycle + regenerationInterval

C18_FixedCadence == [][C18_CycleStep]_vars

\* --------------------------------------------------------------------- C19
\* C19: a regeneration cycle removes a body only if the number of non-driver
\* bodies of the registry (its length less the one driver) exceeds half the
\* configured count; at or below half, it removes nothing.
C19_RemovalOnlyAboveHalf ==
    (thrPc = "done" /\ thrRemoves) => 2 * (regLength - 1) > cfgSmallCount

\* --------------------------------------------------------------------- C20
\* C20 as stated: the Driver Impulse Scheduler runs right after the physics
\* sub-steps, before the Population Regenerator: when the regenerator's turn
\* comes in a tick, a due driver impulse has already been applied, so none is
\* due any more.
C20_ImpulseBeforeRegenerator ==
    pc = "regen" => ~(time - lastImpulseTime > impulseInterval)

\* C20 amended: after the two physics sub-steps a tick runs the Population
\* Regenerator (regeneration cycle, then Pending Spawn update), the Driver
\* Impulse Scheduler, the periodic nudge, Liveness Enforcement, the pointer
\* impulse, Boundary Confinement, the removal compaction and Render Sync, in
\* that order, and each does its work in its own turn only.
C20_Successor ==
    [ regen |-> "spawn", spawn |-> "impulse", impulse |-> "nudge",
      nudge |-> "liveness", liveness |-> "pointer", pointer |-> "boundary",
      boundary |-> "compact", compact |-> "render", render |-> "idle" ]

C20_OrderStep ==
    /\ (pc = "idle" /\ pc' # "idle") => (pc' = "regen" /\ tick'.steps = 2)
    /\ pc # "idle" => pc' = C20_Successor[pc]
    /\ (nextId' # nextId
          \/ lastSphereRegenerationTime' # lastSphereRegenerationTime)
         => pc = "regen"
    /\ Range(smallSphereBodies') \ Range(smallSphereBodies) # {} => pc = "spawn"
    /\ lastImpulseTime' # lastImpulseTime => pc = "impulse"
    /\ (stationaryTimes' # stationaryTimes \/ lastVelocities' # lastVelocities)
         => pc = "liveness"
    /\ toRemove' # toRemove => pc \in {"boundary", "compact"}
    /\ Len(smallSphereBodies') < Len(smallSphereBodies)
         => pc \in {"regen", "compact"}
    /\ (frameScheduled' /\ ~frameScheduled) => pc = "render"

C20_OrderOfTick == [][C20_OrderStep]_vars

\* The driver impulse has just been applied in a tick whose regeneration cycle
\* had already removed a body and started a spawn.
C20_Witness ==
    /\ pc = "nudge"
    /\ tick.cycle
    /\ tick.regenRemoved # << >>
    /\ tick.created # << >>
    /\ tick.cueImpulses # << >>
    /\ lastImpulseTime = time
    /\ lastSphereRegenerationTime = time

\* --------------------------------------------------------------------- C21
\* C21: the boundary forEach only marks: it leaves the registry as it is, and
\* the removal loop that follows it leaves the registry equal to the prior
\* registry without the marked bodies, the survivors in their prior order,
\* mesh array and body array of equal length and aligned index by index.
C21_MarkedIds == {smallSphereBodies[toRemove[j]] : j \in 1..Len(toRemove)}

C21_CompactionStep ==
    /\ pc = "boundary" =>
          /\ UNCHANGED << smallSphereMeshes, smallSphereBodies, cueBallIndexRef >>
          /\ \A j \in 1..Len(toRemove') :
                /\ toRemove'[j] \in 1..Len(smallSphereBodies)
                /\ j > 1 => toRemove'[j - 1] < toRemove'[j]
    /\ pc = "compact" =>
          /\ smallSphereBodies' =
                SelectSeq(smallSphereBodies, LAMBDA id : id \notin C21_MarkedIds)
          /\ smallSphereMeshes' =
                SelectSeq(smallSphereMeshes, LAMBDA id : id \notin C21_MarkedIds)
          /\ Len(smallSphereBodies') = Len(smallSphereBodies) - Len(toRemove)
          /\ Len(smallSphereMeshes') = Len(smallSphereBodies')
          /\ \A k \in 1..Len(smallSphereBodies') :
                smallSphereMeshes'[k] = smallSphereBodies'[k]
    /\ toRemove # << >> => pc = "compact"

C21_CompactionKeepsSurvivors == [][C21_CompactionStep]_vars

\* The removal loop has just removed two marked bodies at once.
C21_Witness ==
    /\ pc = "render"
    /\ Len(tick.ejected) = 2
    /\ Len(smallSphereBodies) = tick.startLen - 2
    /\ tick.regenRemoved = << >>
    /\ smallSphereMeshes = smallSphereBodies

\* --------------------------------------------------------------------- C22
\* C22: a driver that the boundary pass finds beyond mainRadius * exitThreshold
\* is not marked for removal, is put at distance 0.7 * effectiveRadius from the
\* centre and has its velocity set to zero; the removal loop that follows
\* leaves it in the registry as the driver.
C22_DriverClampStep ==
    /\ (pc = "boundary" /\ 100 * body[DriverId].dist > mainRadius * exitThreshold) =>
          /\ 10 * body'[DriverId].dist = 7 * effectiveRadius
          /\ 100 * body'[DriverId].dist = 7 * 9 * mainRadius
          /\ body'[DriverId].speed = 0
          /\ body'[DriverId].type = body[DriverId].type
          /\ \A j \in 1..Len(toRemove') : toRemove'[j] # cueBallIndexRef
    /\ (pc = "compact" /\ tick.clamped # << >>) =>
          /\ cueBallIndexRef' \in 1..Len(smallSphereBodies')
          /\ smallSphereBodies'[cueBallIndexRef'] = DriverId
          /\ smallSphereMeshes'[cueBallIndexRef'] = DriverId
          /\ body'[DriverId] = body[DriverId]

C22_DriverClampedNotRemoved == [][C22_DriverClampStep]_vars

\* The driver was beyond the exit distance with speed, in a tick that also
\* ejected another body, and is now at 0.7 * effectiveRadius at rest.
C22_Witness ==
    /\ pc = "render"
    /\ tick.clamped = << DriverId >>
    /\ tick.ejected # << >>
    /\ body[DriverId].dist = 315
    /\ body[DriverId].speed = 0
    /\ DriverId \in Range(smallSphereBodies)

\* --------------------------------------------------------------------- C23
\* C23: the liveness pass leaves the driver alone in every tick: it gives the
\* driver no revival impulse, does not touch the driver's velocity, and adds
\* nothing to a stationary timer for it, neither at the driver's index nor on
\* the driver's own account, also after removals have moved the driver's index.
C23_DriverNeverTimed ==
    /\ userData[DriverId].isCueBall
    /\ ownTracker[DriverId].timer = 0
    /\ \A j \in 1..Len(tick.revived) : tick.revived[j] # DriverId

C23_LivenessStep ==
    pc = "liveness" =>
        /\ body'[DriverId] = body[DriverId]
        /\ \A j \in 1..Len(tick'.revived) : tick'.revived[j] # DriverId
        /\ stationaryTimes'[cueBallIndexRef] = stationaryTimes[cueBallIndexRef]
        /\ lastVelocities'[cueBallIndexRef] = lastVelocities[cueBallIndexRef]
        /\ ownTracker'[DriverId] = ownTracker[DriverId]

C23_DriverExemptFromLiveness == []C23_DriverNeverTimed /\ [][C23_LivenessStep]_vars

\* The liveness pass has just run over a driver that has been at rest for more
\* than the dwell threshold and whose index a removal moved to the front.
C23_Witness ==
    /\ pc = "pointer"
    /\ time > dwellThreshold
    /\ body[DriverId].speed = 0
    /\ cueBallIndexRef = 1
    /\ DriverId # 1
    /\ tick.cueImpulses = << >>
    /\ tick.revived # << >>

\* --------------------------------------------------------------------- C24
\* C24 as stated: at the end of every tick every registry body has speed at
\* most 12, and every registry body whose speed exceeds the maximum when the
\* boundary pass reaches it leaves the pass with exactly the maximum speed.
C24_SpeedBoundedAtTickEnd ==
    pc = "idle" => \A id \in Range(smallSphereBodies) : body[id].speed <= 1200

C24_RescaleAlwaysStep ==
    pc = "boundary" =>
        \A id \in Range(smallSphereBodies) :
            body[id].speed > 1200 => body'[id].speed = 1200

C24_AsStated == []C24_SpeedBoundedAtTickEnd /\ [][C24_RescaleAlwaysStep]_vars

\* C24: at the end of every tick every registry body has speed at most 12.
\* The boundary pass rescales to exactly the maximum the bodies within the exit
\* distance whose speed, after the 0.95 damping of the outer band, exceeds the
\* maximum; for a body beyond the exit distance the pass returns before the
\* clamp: the driver's velocity is set to zero and any other body keeps its
\* velocity and is removed from the registry by the loop that follows.  The
\* steps after the removal loop change no velocity.
C24_BoundaryStep ==
    /\ pc = "boundary" =>
          \A k \in 1..Len(smallSphereBodies) :
             LET id == smallSphereBodies[k]
                 d == body[id].dist
                 s == IF 10 * d > 8 * effectiveRadius
                      THEN (body[id].speed * 95) \div 100
                      ELSE body[id].speed
             IN IF 100 * d > mainRadius * exitThreshold
                THEN IF k = cueBallIndexRef
                     THEN body'[id].speed = 0
                     ELSE /\ body'[id].speed = body[id].speed
                          /\ \E j \in 1..Len(toRemove') : toRemove'[j] = k
                ELSE body'[id].speed = IF s > 1200 THEN 1200 ELSE s
    /\ pc = "compact" =>
          /\ \A id \in Range(smallSphereBodies') : body'[id] = body[id]
          /\ \A j \in 1..Len(toRemove) :
                smallSphereBodies[toRemove[j]] \notin Range(smallSphereBodies')
    /\ pc = "render" => body' = body

C24_SpeedClamp == []C24_SpeedBoundedAtTickEnd /\ [][C24_BoundaryStep]_vars

\* The end of a tick in which the driver got its scheduled impulse inside the
\* exit distance and was brought down to exactly the maximum speed.
C24_Witness ==
    /\ pc = "idle"
    /\ tick.cueImpulses = << DriverId >>
    /\ tick.clamped = << >>
    /\ body[DriverId].speed = maxVelocity
    /\ \E id \in Range(smallSphereBodies) : id # DriverId /\ body[id].speed = maxVelocity

\* --------------------------------------------------------------------- C25
\* C25: the render sync pass of a tick writes to meshes, lights and materials
\* only: every body's position, velocity and type, the world, the registry,
\* the driver index, the stationary trackers and the Pending Spawn slot are the
\* same after the pass as before it.
C25_RenderStep ==
    pc = "render" =>
        /\ UNCHANGED << body, world, smallSphereBodies, smallSphereMeshes,
                        cueBallIndexRef, stationaryTimes, lastVelocities,
                        ownTracker, pendingNewSphere, toRemove >>
        /\ Len(tick'.synced) = Len(smallSphereBodies)
        /\ \A k \in 1..Len(smallSphereBodies) :
              tick'.synced[k].dist = body'[smallSphereBodies[k]].dist

C25_RenderSyncReadsOnly == [][C25_RenderStep]_vars

\* The pass has run over a registry with moving bodies and a Pending Spawn,
\* and for one mesh the node at its lightIndex was the mesh of another sphere.
C25_Witness ==
    /\ pc = "idle"
    /\ Len(tick.synced) = Len(smallSphereBodies)
    /\ pendingNewSphere.mesh # 0
    /\ \E id \in Range(smallSphereBodies) : body[id].speed > 0
    /\ \E k \in 1..Len(tick.synced) :
          /\ tick.synced[k].light # << >>
          /\ tick.synced[k].light[1].kind = "mesh"

\* --------------------------------------------------------------------- C26
\* C26: for a body within the exit distance, one iteration of the boundary
\* forEach applies the restoring force and the 0.95 damping iff the body's
\* distance from the centre exceeds 0.8 * effectiveRadius.  The force points
\* from the body to the centre and its magnitude is
\* ((distance - 0.8 * effR) / (0.2 * effR))^2 * boundaryForceMultiplier; a body
\* at or inside 0.8 * effectiveRadius gets no restoring force and no damping.
C26_RestoringForces ==
    SelectSeq(bndOut.forces, LAMBDA f : f.name = "boundaryForce")

C26_BandForceAndDamping ==
    LET d == Abs(bndIn.x)
        clamp(s) == IF s > 1200 THEN 1200 ELSE s
    IN (bndPc = "done" /\ 100 * d <= 500 * 102) =>
         IF d > 360
         THEN /\ Len(C26_RestoringForces) = 1
              /\ Abs(C26_RestoringForces[1].value)
                    = (((d - 360) * (d - 360)) * 15000) \div (90 * 90)
              /\ C26_RestoringForces[1].value * bndIn.x < 0
              /\ bndOut.speed = clamp((bndIn.speed * 95) \div 100)
              /\ bndOut.x = bndIn.x
         ELSE /\ C26_RestoringForces = << >>
              /\ bndOut.speed = clamp(bndIn.speed)
              /\ bndOut.x = bndIn.x

\* An iteration over a body just outside 0.8 * effectiveRadius on the negative
\* side of the axis: a small force in the positive direction, and damping that
\* brings a speed above the maximum below it.
C26_Witness ==
    /\ bndPc = "done"
    /\ bndIn.x = 0 - 361
    /\ bndIn.speed = 1250
    /\ bndOut.speed = 1187
    /\ Len(bndOut.forces) = 2
    /\ bndOut.forces[2].value = 1

\* --------------------------------------------------------------------- C27
\* C27: every iteration of the boundary forEach applies the central-gravity
\* force to its body, whatever the body's distance from the centre, also for
\* a body beyond the exit distance.
C27_GravityAlwaysApplied ==
    bndPc = "done" =>
        \E j \in 1..Len(bndOut.forces) : bndOut.forces[j].name = "gravityCentral"

\* A non-driver body beyond the exit distance: marked, and no force applied.
C27_Witness ==
    /\ bndPc = "done"
    /\ bndIn.x = 511
    /\ bndOut.marked
    /\ bndOut.forces = << >>

\* --------------------------------------------------------------------- C28
\* C28: the rejection loop of calculateNewImpulseDirection has no retry cap (a
\* rejected sample is always followed by another iteration), some sample has
\* its squared length in [0.1, 1), and with a fair sampler every call leaves
\* the loop and returns a direction.
C28_InRegion(v) ==
    /\ 10 * LengthSquared(v) >= Grid * Grid
    /\ LengthSquared(v) < Grid * Grid

C28_RegionNotEmpty ==
    \E x \in Coordinates, y \in Coordinates, z \in Coordinates :
        C28_InRegion(<< x, y, z >>)

C28_NoCapStep ==
    (dirPc = "sampling" /\ ~C28_InRegion(dirSample')) => dirPc' = "sampling"

C28_LoopTerminates ==
    /\ []C28_RegionNotEmpty
    /\ [][C28_NoCapStep]_vars
    /\ <>(dirPc = "returned")

\* A call returned from a sample at the inner edge of the acceptance region.
C28_Witness ==
    /\ dirPc = "returned"
    /\ 10 * LengthSquared(dirSample) >= Grid * Grid
    /\ 10 * (LengthSquared(dirSample) - 1) < Grid * Grid
    /\ dirResult # << 0, 0, 0 >>

\* --------------------------------------------------------------------- C29
\* C29: in every reachable state the registry size plus the number of pending
\* spawns (0 or 1) is at most smallCount, so every index the liveness pass
\* works on has an entry in lastVelocities and in stationaryTimes, which keep
\* the smallCount entries they were created with.
C29_PendingCount == IF pendingNewSphere.mesh # 0 THEN 1 ELSE 0

C29_PopulationBounded ==
    /\ Len(smallSphereBodies) + C29_PendingCount <= smallCount
    /\ Len(lastVelocities) = smallCount
    /\ Len(stationaryTimes) = smallCount
    /\ \A k \in 1..Len(smallSphereBodies) :
          /\ k \in DOMAIN lastVelocities
          /\ k \in DOMAIN stationaryTimes
    /\ LivenessThrowsAt = {}

\* The liveness pass has just run over a full registry whose last index holds
\* an activated spawn.
C29_Witness ==
    /\ pc = "pointer"
    /\ Len(smallSphereBodies) = smallCount
    /\ smallSphereBodies[smallCount] > smallCount
    /\ cueBallIndexRef # smallCount
    /\ lastVelocities[smallCount] = body[smallSphereBodies[smallCount]].speed

\* --------------------------------------------------------------------- C30
\* C30: the population is replenished.  In a tick whose regeneration test
\* finds the interval elapsed and the registry at or below the removal
\* threshold, no body is removed, and a spawn is started in that tick iff the
\* Pending Spawn slot is empty; the test stays true until a spawn has been
\* started.  A pending spawn is activated into the registry in a later tick,
\* as long as frames keep being delivered: in the model, whenever the horizon
\* of the environment leaves room for a frame later than popupDuration after
\* the start of the spawn.
C30_FramesOver == \A dt \in LongEnv.deltas : time + dt > LongEnv.maxTime

C30_FramesLeft ==
    \E dt \in LongEnv.deltas :
        pendingNewSphere.startTime + popupDuration + dt <= LongEnv.maxTime

C30_ReplenishStep ==
    /\ (/\ pc = "regen"
        /\ time - lastSphereRegenerationTime > regenerationInterval
        /\ 2 * Len(smallSphereBodies) <= Max(4, smallCount))
       => /\ smallSphereBodies' = smallSphereBodies
          /\ lastSphereRegenerationTime' = lastSphereRegenerationTime
          /\ IF pendingNewSphere.mesh = 0
             THEN /\ pendingNewSphere'.mesh # 0
                  /\ pendingNewSphere'.startTime = time
                  /\ pendingNewSphere'.body \in world'
                  /\ pendingNewSphere'.body \notin Range(smallSphereBodies')
             ELSE pendingNewSphere' = pendingNewSphere
    /\ (pc = "spawn" /\ tick'.activated # << >>)
       => /\ tick'.activated = << pendingNewSphere.body >>
          /\ smallSphereBodies' = Append(smallSphereBodies, pendingNewSphere.body)
          /\ pendingNewSphere'.mesh = 0

C30_Activated ==
    /\ tick.activated # << >>
    /\ tick.activated[1] \in Range(smallSphereBodies)
    /\ pendingNewSphere.mesh = 0

C30_Replenished ==
    /\ [][C30_ReplenishStep]_vars
    /\ [](pendingNewSphere.mesh # 0 => tick.activated = << >>)
    /\ (pendingNewSphere.mesh # 0 /\ C30_FramesLeft) ~> C30_Activated

\* A spawn has just been activated that was started without a removal by the
\* regenerator: ejections had brought the registry to the threshold.
C30_Witness ==
    /\ pc = "impulse"
    /\ tick.activated # << >>
    /\ tick.activated[1] = smallSphereBodies[Len(smallSphereBodies)]
    /\ lastSphereRegenerationTime = 0
    /\ time > regenerationInterval
    /\ ~C30_FramesOver

\* --------------------------------------------------------------------- C31
\* C31: after the boundary correction of a frame of the App loop every body is
\* within mainSphereRadius of the reference centre (0, -0.4, 0), the point its
\* distance was measured against.
C31_WithinReferenceSphere ==
    appTicked =>
        \A k \in 1..AppBodies : Abs(appBody[k].y - (0 - 40)) <= 200

\* A body measured at height 3, that is 3.4 from the reference centre (beyond
\* it, on the side of the origin), had its velocity halved and its position
\* scaled by 2 / 3.4 about the origin, and the mesh follows it.
C31_Witness ==
    /\ appTicked
    /\ \E k \in 1..AppBodies :
          /\ appMeasured[k].y = 300
          /\ appMeasured[k].distance = 340
          /\ appMeasured[k].v = 100
          /\ appBody[k].v = 50
          /\ appBody[k].y = 176
          /\ appMesh[k] = 176
    /\ appRestitution = 150

====
